---- MODULE Spec2Model ----
(***************************************************************************)
(* packagelister: scanning python files for imports, resolving the names   *)
(* to installed distributions and aggregating them per project.            *)
(*                                                                         *)
(* A python str is a sequence of one-character strings, so slicing,        *)
(* searching, concatenation and comparison are those of the code.          *)
(***************************************************************************)
EXTENDS Integers, Sequences, FiniteSets, TLC

VARIABLES
    files,                   \* Project.files: the list of File records
    ret,                     \* what the last call returned or raised
    source,                  \* the syntax tree ast.parse gives for the text at hand
    fs,                      \* what rglob("*") would enumerate under the scanned root
    packages_distributions,  \* the module-level snapshot taken at import time
    installed                \* the environment now: distribution name -> version

vars == <<files, ret, source, fs, packages_distributions, installed>>

----------------------------------------------------------------------------
(* Strings *)

\* python's None: a one-element sequence no str equals (strs hold single characters)
None == <<"None">>

\* ord(c) for the characters the model uses
Ord(c) ==
    CASE c = "." -> 46
      [] c = "1" -> 49
      [] c = "2" -> 50
      [] c = "=" -> 61
      [] c = ">" -> 62
      [] c = "N" -> 78
      [] c = "a" -> 97
      [] c = "b" -> 98
      [] c = "d" -> 100
      [] c = "e" -> 101
      [] c = "n" -> 110
      [] c = "o" -> 111
      [] c = "p" -> 112
      [] c = "t" -> 116
      [] c = "x" -> 120
      [] c = "y" -> 121

\* s < t on python strs: lexicographic by code point, a proper prefix first
RECURSIVE StrLess(_, _)
StrLess(s, t) ==
    IF t = <<>> THEN FALSE
    ELSE IF s = <<>> THEN TRUE
    ELSE IF Head(s) = Head(t) THEN StrLess(Tail(s), Tail(t))
    ELSE Ord(Head(s)) < Ord(Head(t))

StrLeq(s, t) == s = t \/ StrLess(s, t)

\* bool(x) for x a str or None
Truthy(x) == x # None /\ x # <<>>

\* str(x) as an f-string renders a str or None
Str(x) == IF x = None THEN <<"N", "o", "n", "e">> ELSE x

\* x in seq
In(x, seq) == \E i \in 1..Len(seq) : seq[i] = x

\* the elements of a list, as a set
Elems(seq) == {seq[i] : i \in 1..Len(seq)}

----------------------------------------------------------------------------
(* Package and PackageList *)

\* Package(name, distribution_name, version, builtin)
Package(name, distribution_name, version, builtin) ==
    [name |-> name, distribution_name |-> distribution_name,
     version |-> version, builtin |-> builtin]

\* Package.format_requirement
format_requirement(self, version_specifier) ==
    Str(self.distribution_name) \o Str(version_specifier) \o Str(self.version)

\* PackageList.names
names(self) == [i \in 1..Len(self) |-> self[i].name]

\* PackageList.third_party with the builtin test left out
third_party_anyBuiltin(self) ==
    LET Keep(package) == Truthy(package.distribution_name)
    IN  SelectSeq(self, Keep)

\* PackageList.third_party
third_party(self) ==
    LET Keep(package) == ~package.builtin /\ Truthy(package.distribution_name)
    IN  SelectSeq(self, Keep)

\* PackageList.builtin
builtin(self) ==
    LET Keep(package) == package.builtin
    IN  SelectSeq(self, Keep)

\* File(path, packages)
File(path, packages) == [path |-> path, packages |-> packages]

----------------------------------------------------------------------------
(* Project *)

\* sorted(packages, key=lambda p: p.name): stable, equal keys keep their order
RECURSIVE InsertByName(_, _)
InsertByName(p, seq) ==
    IF seq = <<>> THEN <<p>>
    ELSE IF StrLeq(Head(seq).name, p.name)
         THEN <<Head(seq)>> \o InsertByName(p, Tail(seq))
         ELSE <<p>> \o seq

RECURSIVE SortedByName(_)
SortedByName(seq) ==
    IF seq = <<>> THEN <<>>
    ELSE InsertByName(seq[Len(seq)], SortedByName(SubSeq(seq, 1, Len(seq) - 1)))

\* the inner loop of Project.packages over one file's packages
RECURSIVE AppendNew(_, _)
AppendNew(acc, pkgs) ==
    IF pkgs = <<>> THEN acc
    ELSE AppendNew(IF In(Head(pkgs), acc) THEN acc ELSE Append(acc, Head(pkgs)),
                   Tail(pkgs))

\* the outer loop of Project.packages over the files
RECURSIVE Collect(_, _)
Collect(acc, fls) ==
    IF fls = <<>> THEN acc
    ELSE Collect(AppendNew(acc, Head(fls).packages), Tail(fls))

\* Project.packages before the sort
packages_unsorted(fls) == Collect(<<>>, fls)

\* Project.packages
packages(fls) == SortedByName(Collect(<<>>, fls))

\* Project.requirements
requirements(fls) == third_party(packages(fls))

\* Project.get_formatted_requirements formatting with whatever specifier it got
get_formatted_requirements_always(fls, version_specifier) ==
    LET reqs == requirements(fls)
    IN  [i \in 1..Len(reqs) |-> format_requirement(reqs[i], version_specifier)]

\* Project.get_formatted_requirements
get_formatted_requirements(fls, version_specifier) ==
    LET reqs == requirements(fls)
    IN  [i \in 1..Len(reqs) |->
            IF Truthy(version_specifier)
            THEN format_requirement(reqs[i], version_specifier)
            ELSE IF Truthy(reqs[i].distribution_name)
                 THEN reqs[i].distribution_name
                 ELSE reqs[i].name]

\* the inner loop of Project.get_files_by_package: one package over the files
RECURSIVE FilesOfPackage(_, _, _)
FilesOfPackage(d, name, fls) ==
    IF fls = <<>> THEN d
    ELSE LET file == Head(fls)
             d2 == IF In(name, names(file.packages))
                   THEN IF name \notin DOMAIN d
                        THEN d @@ (name :> <<file.path>>)
                        ELSE [d EXCEPT ![name] = Append(@, file.path)]
                   ELSE d
         IN  FilesOfPackage(d2, name, Tail(fls))

\* the outer loop of Project.get_files_by_package over self.packages
RECURSIVE FilesByPackage(_, _, _)
FilesByPackage(d, pkgs, fls) ==
    IF pkgs = <<>> THEN d
    ELSE FilesByPackage(FilesOfPackage(d, Head(pkgs).name, fls), Tail(pkgs), fls)

\* the empty dict
EmptyDict == [k \in {} |-> <<>>]

\* Project.get_files_by_package
get_files_by_package(fls) == FilesByPackage(EmptyDict, packages(fls), fls)

----------------------------------------------------------------------------
(* A Project whose files list its caller builds and edits *)

MaxFiles == 2
MaxPkgs == 1

STR_a == <<"a">>
STR_b == <<"b">>
STR_d == <<"d">>
STR_1 == <<"1">>
STR_ge == <<">", "=">>
PATH_x == <<STR_a, <<"x", ".", "p", "y">>>>
PATH_y == <<STR_b, <<"y", ".", "p", "y">>>>

\* the Package records a caller puts into a File
PackagePool ==
    { Package(STR_a, None, None, FALSE),
      Package(STR_a, STR_d, STR_1, FALSE),
      Package(STR_b, <<>>, None, FALSE),
      Package(STR_b, STR_d, STR_1, TRUE) }

\* all lists over S of length at most n
RECURSIVE SeqsUpTo(_, _)
SeqsUpTo(S, n) ==
    IF n = 0 THEN {<<>>}
    ELSE LET shorter == SeqsUpTo(S, n - 1)
         IN  shorter \cup {Append(s, x) : s \in {t \in shorter : Len(t) = n - 1}, x \in S}

FilePool ==
    {File(path, pkgs) : path \in {PATH_x, PATH_y}, pkgs \in SeqsUpTo(PackagePool, MaxPkgs)}

\* the version_specifier arguments tried: omitted (None), "" and ">="
Specifiers == {None, <<>>, STR_ge}

NoRet == [op |-> "none"]
Returned(op, arg, val) == [op |-> op, arg |-> arg, val |-> val]

restVars == <<source, fs, packages_distributions, installed>>

\* the caller takes what the call returned or raised and goes on
Return ==
    /\ ret # NoRet
    /\ ret' = NoRet
    /\ UNCHANGED <<files, restVars>>

\* Project(files) with an empty list
InitProject ==
    /\ files = <<>>
    /\ ret = NoRet
    /\ source = None
    /\ fs = <<>>
    /\ packages_distributions = EmptyDict
    /\ installed = EmptyDict

\* project.files.append(file)
AddFile(file) ==
    /\ ret = NoRet
    /\ Len(files) < MaxFiles
    /\ files' = Append(files, file)
    /\ UNCHANGED <<ret, restVars>>

\* del project.files[i]
RemoveFile(i) ==
    /\ ret = NoRet
    /\ i \in 1..Len(files)
    /\ files' = SubSeq(files, 1, i - 1) \o SubSeq(files, i + 1, Len(files))
    /\ UNCHANGED <<ret, restVars>>

\* project.files[i] = file
ReplaceFile(i, file) ==
    /\ ret = NoRet
    /\ i \in 1..Len(files)
    /\ files' = [files EXCEPT ![i] = file]
    /\ UNCHANGED <<ret, restVars>>

\* project.packages collecting into the first File's own list instead of a new one
GetPackages_intoFirstFile ==
    /\ ret = NoRet
    /\ ret' = Returned("packages", None, packages(files))
    /\ files' = IF files = <<>> THEN files
                ELSE [files EXCEPT ![1].packages = packages_unsorted(files)]
    /\ UNCHANGED restVars

\* project.packages
GetPackages ==
    /\ ret = NoRet
    /\ ret' = Returned("packages", None, packages(files))
    /\ UNCHANGED <<files, restVars>>

\* project.requirements, which is project.packages.third_party
GetRequirements ==
    /\ ret = NoRet
    /\ ret' = Returned("requirements", None, requirements(files))
    /\ UNCHANGED <<files, restVars>>

\* project.packages.builtin
GetBuiltin ==
    /\ ret = NoRet
    /\ ret' = Returned("builtin", None, builtin(packages(files)))
    /\ UNCHANGED <<files, restVars>>

\* project.get_formatted_requirements(version_specifier)
GetFormattedRequirements(version_specifier) ==
    /\ ret = NoRet
    /\ ret' = Returned("get_formatted_requirements", version_specifier,
                       get_formatted_requirements(files, version_specifier))
    /\ UNCHANGED <<files, restVars>>

\* project.get_files_by_package()
GetFilesByPackage ==
    /\ ret = NoRet
    /\ ret' = Returned("get_files_by_package", None, get_files_by_package(files))
    /\ UNCHANGED <<files, restVars>>

NextProject ==
    \/ \E file \in FilePool : AddFile(file)
    \/ \E i \in 1..MaxFiles : RemoveFile(i)
    \/ \E i \in 1..MaxFiles, file \in FilePool : ReplaceFile(i, file)
    \/ GetPackages
    \/ GetRequirements
    \/ GetBuiltin
    \/ \E version_specifier \in Specifiers : GetFormattedRequirements(version_specifier)
    \/ GetFilesByPackage
    \/ Return

Spec == InitProject /\ [][NextProject]_vars
----------------------------------------------------------------------------
(* Claims about the Project views *)

\* no two entries of a PackageList have the same name
NoDuplicateNames(pl) ==
    \A i, j \in 1..Len(pl) : pl[i].name = pl[j].name => i = j

\* a PackageList ascends by name
AscendingByName(pl) ==
    \A i, j \in 1..Len(pl) : i < j => StrLeq(pl[i].name, pl[j].name)

\* sub holds exactly the entries of full that satisfy Keep, in full's order
IsSublistWhere(sub, full, Keep(_)) ==
    LET pos == {j \in 1..Len(full) : Keep(full[j])}
        nth(i) == CHOOSE j \in pos : Cardinality({k \in pos : k <= j}) = i
    IN  /\ Len(sub) = Cardinality(pos)
        /\ \A i \in 1..Len(sub) : sub[i] = full[nth(i)]

\* every Package record some File of fls holds
HeldPackages(fls) == UNION {Elems(fls[i].packages) : i \in 1..Len(fls)}

\* C1: the list P.packages returns has no two entries with the same name and
\* ascends by name, whatever records the files hold.
C1_PackagesUniqueSorted ==
    ret.op = "packages" => NoDuplicateNames(ret.val) /\ AscendingByName(ret.val)

C5_FilesByPackageExact ==
    ret.op = "get_files_by_package" =>
        /\ DOMAIN ret.val = {p.name : p \in Elems(packages(files))}
        /\ \A name \in DOMAIN ret.val :
              LET Imports(file) == \E p \in Elems(file.packages) : p.name = name
                  importing == SelectSeq(files, Imports)
              IN  ret.val[name] = [i \in 1..Len(importing) |-> importing[i].path]

\* what a view read of the files as they are now has to be, from the files alone
ReflectsFiles ==
    LET held == HeldPackages(files)
        reqs == {p \in held : ~p.builtin /\ Truthy(p.distribution_name)}
    IN  /\ ret.op = "packages" =>
              Elems(ret.val) = held /\ Len(ret.val) = Cardinality(held)
        /\ ret.op = "requirements" =>
              Elems(ret.val) = reqs /\ Len(ret.val) = Cardinality(reqs)
        /\ ret.op = "get_formatted_requirements" =>
              /\ Len(ret.val) = Cardinality(reqs)
              /\ \A p \in reqs : \E i \in 1..Len(ret.val) :
                    SubSeq(ret.val[i], 1, Len(p.distribution_name))
                        = p.distribution_name
        /\ ret.op = "get_files_by_package" =>
              /\ DOMAIN ret.val = {p.name : p \in held}
              /\ \A name \in DOMAIN ret.val :
                    Elems(ret.val[name]) =
                        {files[i].path : i \in {j \in 1..Len(files) :
                            \E p \in Elems(files[j].packages) : p.name = name}}

\* a step that returns a view leaves files, and so every File's packages, alone
ReadKeepsFiles == ret'.op # "none" => files' = files

\* C10: whatever was added to, removed from or replaced in P.files, a read of
\* packages, requirements, get_formatted_requirements or get_files_by_package
\* gives what the current files determine, and reading changes no file.
C10_ViewsComputedOnDemand == []ReflectsFiles /\ [][ReadKeepsFiles]_vars

\* get_files_by_package was read of a two-file project with two names
C10_Witness ==
    /\ ret.op = "get_files_by_package"
    /\ Len(files) = MaxFiles
    /\ Cardinality(DOMAIN ret.val) = 2
----------------------------------------------------------------------------
(* The import extractor *)

MaxAliases == 2
MaxBody == 2
MaxDepth == 1

STR_a_b == <<"a", ".", "b">>

\* the dotted module paths a statement of the scanned text may name
Modules == {STR_a, STR_b, STR_a_b}

\* ast nodes: Module and If carry a body, Import its aliases, ImportFrom its module
Node(type, body, names_, module) ==
    [type |-> type, body |-> body, names |-> names_, module |-> module]
Alias(name) == [type |-> "alias", body |-> <<>>, names |-> <<>>, module |-> None, name |-> name]
Import(names_) == Node("Import", <<>>, names_, None)
ImportFrom(module) == Node("ImportFrom", <<>>, <<>>, module)
Pass == Node("Pass", <<>>, <<>>, None)
If(body) == Node("If", body, <<>>, None)
Module(body) == Node("Module", body, <<>>, None)

\* what ast.parse raises SyntaxError on
InvalidSource == Node("invalid", <<>>, <<>>, None)

SimpleStmts ==
    {Import([i \in 1..Len(ms) |-> Alias(ms[i])]) :
        ms \in SeqsUpTo(Modules, MaxAliases) \ {<<>>}}
    \cup {ImportFrom(m) : m \in Modules \cup {None}}
    \cup {Pass}

\* statements nested at most d compound statements deep
RECURSIVE Stmts(_)
Stmts(d) ==
    IF d = 0 THEN SimpleStmts
    ELSE SimpleStmts \cup {If(b) : b \in SeqsUpTo(Stmts(d - 1), MaxBody) \ {<<>>}}

Sources == {Module(b) : b \in SeqsUpTo(Stmts(MaxDepth), MaxBody)} \cup {InvalidSource}

\* ast.iter_child_nodes
iter_child_nodes(node) == node.body \o node.names

\* ast.walk: breadth first from the root
RECURSIVE Walk(_)
Walk(todo) ==
    IF todo = <<>> THEN <<>>
    ELSE <<Head(todo)>> \o Walk(Tail(todo) \o iter_child_nodes(Head(todo)))

\* str.find(c): the index (from 0) of the first c, or -1
RECURSIVE FindFrom(_, _, _)
FindFrom(s, c, i) ==
    IF i > Len(s) THEN -1
    ELSE IF s[i] = c THEN i - 1
    ELSE FindFrom(s, c, i + 1)

Find(s, c) == FindFrom(s, c, 1)

\* the body of the loop of get_package_names_from_source for one node
PackageOfNode(node) ==
    LET package == IF node.type = "Import" THEN node.names[1].name
                   ELSE IF node.type = "ImportFrom" THEN node.module
                   ELSE <<>>
    IN  IF Truthy(package)
        THEN IF In(".", package)
             THEN <<SubSeq(package, 1, Find(package, "."))>>
             ELSE <<package>>
        ELSE <<>>

\* the loop of get_package_names_from_source over ast.walk(tree)
RECURSIVE PackagesOfNodes(_)
PackagesOfNodes(nodes) ==
    IF nodes = <<>> THEN <<>>
    ELSE PackageOfNode(Head(nodes)) \o PackagesOfNodes(Tail(nodes))

\* sorted(list(set(strs)))
RECURSIVE SortedSet(_)
SortedSet(S) ==
    IF S = {} THEN <<>>
    ELSE LET least == CHOOSE x \in S : \A y \in S : StrLeq(x, y)
         IN  <<least>> \o SortedSet(S \ {least})

\* get_package_names_from_source, given the tree ast.parse returned
get_package_names_from_source(tree) ==
    SortedSet(Elems(PackagesOfNodes(Walk(<<tree>>))))

Raised(op, error) == [op |-> op, error |-> error]

InitExtract ==
    /\ source \in Sources
    /\ ret = NoRet
    /\ files = <<>>
    /\ fs = <<>>
    /\ packages_distributions = EmptyDict
    /\ installed = EmptyDict

\* get_package_names_from_source(source)
Extract ==
    /\ ret = NoRet
    /\ \/ /\ source = InvalidSource
          /\ ret' = Raised("get_package_names_from_source", "SyntaxError")
       \/ /\ source # InvalidSource
          /\ ret' = Returned("get_package_names_from_source", None,
                             get_package_names_from_source(source))
    /\ UNCHANGED <<files, source, fs, packages_distributions, installed>>

NextExtract == Extract

SpecExtract == InitExtract /\ [][NextExtract]_vars

\* every module a statement of the tree names, at any depth
RECURSIVE NamedModules(_)
NamedModules(node) ==
    (IF node.type = "Import" THEN {node.names[i].name : i \in 1..Len(node.names)}
     ELSE IF node.type = "ImportFrom" /\ node.module # None THEN {node.module}
     ELSE {})
    \cup UNION {NamedModules(node.body[i]) : i \in 1..Len(node.body)}

\* the first dot-separated component of a module path
TopLevel(m) ==
    CHOOSE p \in {SubSeq(m, 1, k) : k \in 1..Len(m)} :
        /\ ~In(".", p)
        /\ Len(p) = Len(m) \/ m[Len(p) + 1] = "."

\* lst is the ascending list, without repeats, of the strs in S
IsAscendingListOf(lst, S) ==
    /\ Elems(lst) = S
    /\ \A i, j \in 1..Len(lst) : i < j => StrLess(lst[i], lst[j])

\* C2: for valid source the extractor returns the ascending duplicate-free list
\* of the top-level components of every module named by any import statement and
\* of the module path of every from-import that has one.
C2_ExtractsEveryNamedModule ==
    (ret.op = "get_package_names_from_source" /\ "val" \in DOMAIN ret) =>
        IsAscendingListOf(ret.val, {TopLevel(m) : m \in NamedModules(source)})

\* the same with only the first module of each import statement counted
RECURSIVE FirstNamedModules(_)
FirstNamedModules(node) ==
    (IF node.type = "Import" THEN {node.names[1].name}
     ELSE IF node.type = "ImportFrom" /\ node.module # None THEN {node.module}
     ELSE {})
    \cup UNION {FirstNamedModules(node.body[i]) : i \in 1..Len(node.body)}

ExtractsFirstNamedModule ==
    (ret.op = "get_package_names_from_source" /\ "val" \in DOMAIN ret) =>
        IsAscendingListOf(ret.val, {TopLevel(m) : m \in FirstNamedModules(source)})
----------------------------------------------------------------------------
(* The package resolver and the installed-package environment *)

STR_e == <<"e">>
STR_2 == <<"2">>

\* sys.stdlib_module_names of the running interpreter
stdlib_module_names == {STR_a}

\* the import names a distribution may provide and the distributions there are
ImportNames == {STR_a, STR_b}
Distributions == {STR_d, STR_e}
Versions == {STR_1, STR_2}

\* an installed distribution: its version and the top-level module it provides
Installed(version, module) == [version |-> version, module |-> module]

\* the environments: each distribution absent or installed
Environments ==
    UNION {[ds -> {Installed(v, m) : v \in Versions, m \in ImportNames}] :
              ds \in SUBSET Distributions}

\* all orderings of a finite set
RECURSIVE Orderings(_)
Orderings(S) ==
    IF S = {} THEN {<<>>}
    ELSE UNION {{<<x>> \o rest : rest \in Orderings(S \ {x})} : x \in S}

\* importlib.metadata.packages_distributions() in environment env: each provided
\* import name with the distributions providing it, in discovery order
PackagesDistributions(env) ==
    LET provided == {env[d].module : d \in DOMAIN env}
        providers(m) == {d \in DOMAIN env : env[d].module = m}
    IN  {snap \in [provided -> UNION {Orderings(ds) : ds \in SUBSET DOMAIN env}] :
            \A m \in provided : Elems(snap[m]) = providers(m) /\ Len(snap[m]) = Cardinality(providers(m))}

\* is_builtin
is_builtin(package_name) == package_name \in stdlib_module_names

\* dict.get(key): None when the key is absent
Get(d, key) == IF key \in DOMAIN d THEN d[key] ELSE None

\* whether importlib.metadata.version(distribution_name) raises PackageNotFoundError
VersionRaises(distribution_name, env) == distribution_name \notin DOMAIN env

\* whether Package.from_name raises
FromNameRaises(package_name, snapshot, env) ==
    LET distributions == Get(snapshot, package_name)
    IN  Truthy(distributions) /\ VersionRaises(distributions[1], env)

\* Package.from_name, when it returns
from_name(package_name, snapshot, env) ==
    LET distributions == Get(snapshot, package_name)
    IN  IF Truthy(distributions)
        THEN Package(package_name, distributions[1], env[distributions[1]].version,
                     is_builtin(package_name))
        ELSE Package(package_name, None, None, is_builtin(package_name))

\* the module is imported: the snapshot is taken of the environment as it is
InitResolve ==
    /\ installed \in Environments
    /\ packages_distributions \in PackagesDistributions(installed)
    /\ ret = NoRet
    /\ files = <<>>
    /\ source = None
    /\ fs = <<>>

\* another process installs a distribution
Install(d, version, module) ==
    /\ ret = NoRet
    /\ d \notin DOMAIN installed
    /\ installed' = installed @@ (d :> Installed(version, module))
    /\ UNCHANGED <<files, ret, source, fs, packages_distributions>>

\* another process uninstalls a distribution
Uninstall(d) ==
    /\ ret = NoRet
    /\ d \in DOMAIN installed
    /\ installed' = [x \in DOMAIN installed \ {d} |-> installed[x]]
    /\ UNCHANGED <<files, ret, source, fs, packages_distributions>>

\* Package.from_name(package_name)
FromName(package_name) ==
    /\ ret = NoRet
    /\ \/ /\ FromNameRaises(package_name, packages_distributions, installed)
          /\ ret' = [op |-> "from_name", arg |-> package_name,
                     error |-> "PackageNotFoundError"]
       \/ /\ ~FromNameRaises(package_name, packages_distributions, installed)
          /\ ret' = Returned("from_name", package_name,
                             from_name(package_name, packages_distributions, installed))
    /\ UNCHANGED <<files, source, fs, packages_distributions, installed>>

NextResolve ==
    \/ \E d \in Distributions, v \in Versions, m \in ImportNames : Install(d, v, m)
    \/ \E d \in Distributions : Uninstall(d)
    \/ \E package_name \in ImportNames : FromName(package_name)
    \/ Return

SpecResolve == InitResolve /\ [][NextResolve]_vars

\* C6: from_name never fails, whatever the environment is when it is called: it
\* returns a Package whose distribution_name and version are null when the
\* snapshot has no entry for the name, and otherwise the snapshot's first
\* candidate and that distribution's installed version.
C6_FromNameNeverFails ==
    ret.op = "from_name" =>
        /\ "val" \in DOMAIN ret
        /\ IF ret.arg \in DOMAIN packages_distributions
           THEN /\ ret.val.distribution_name = packages_distributions[ret.arg][1]
                /\ ret.val.distribution_name \in DOMAIN installed
                /\ ret.val.version = installed[ret.val.distribution_name].version
           ELSE ret.val.distribution_name = None /\ ret.val.version = None

\* C7: a Package from_name made is builtin exactly when its name is a standard
\* library module name, and is never both builtin and given a distribution_name.
C7_BuiltinHasNoDistribution ==
    (ret.op = "from_name" /\ "val" \in DOMAIN ret) =>
        /\ ret.val.builtin <=> ret.arg \in stdlib_module_names
        /\ ~(ret.val.builtin /\ ret.val.distribution_name # None)
----------------------------------------------------------------------------
(* scan_file and scan_dir over a directory tree *)

MaxEntries == 2

PATH_n == <<STR_a, <<"n", ".", "t", "x", "t">>>>

\* a path that cannot be read as text (a directory, no permission, deleted)
Unreadable == Node("unreadable", <<>>, <<>>, None)

\* what the files under the root may hold
Contents ==
    { Module(<<>>),
      Module(<<Pass>>),
      Module(<<Import(<<Alias(STR_a)>>), ImportFrom(STR_b)>>),
      Module(<<If(<<Import(<<Alias(STR_a_b), Alias(STR_b)>>)>>), ImportFrom(None)>>),
      InvalidSource,
      Unreadable }

\* a directory entry: its path, as Path.parts gives it, and what it holds
Entry(path, content) == [path |-> path, content |-> content]

\* the trees: at most MaxEntries entries, in the order the walk meets them, no path twice
Trees ==
    {t \in SeqsUpTo({Entry(path, c) : path \in {PATH_x, PATH_y, PATH_n}, c \in Contents},
                    MaxEntries) :
        \A i, j \in 1..Len(t) : t[i].path = t[j].path => i = j}

\* fnmatch of a file name against "*.py"
MatchesPy(entry) ==
    LET name == entry.path[Len(entry.path)]
    IN  /\ Len(name) >= 3
        /\ SubSeq(name, Len(name) - 2, Len(name)) = <<".", "p", "y">>

\* list(path.rglob("*.py"))
rglob_py(tree) == SelectSeq(tree, MatchesPy)

\* the names scan_file would keep without the test against file.parts
used_names_unfiltered(entry) == get_package_names_from_source(entry.content)

\* the names scan_file keeps: those that are no part of the file's path
used_names(entry) ==
    LET NotInParts(package) == ~In(package, entry.path)
    IN  SelectSeq(get_package_names_from_source(entry.content), NotInParts)

\* the exception scan_file raises on this entry, "" when it returns
ScanFileError(entry, snapshot, env) ==
    IF entry.content = Unreadable THEN "OSError"
    ELSE IF entry.content = InvalidSource THEN "SyntaxError"
    ELSE IF \E i \in 1..Len(used_names(entry)) :
                FromNameRaises(used_names(entry)[i], snapshot, env)
         THEN "PackageNotFoundError"
    ELSE ""

\* scan_file, when it returns
scan_file(entry, snapshot, env) ==
    LET packages_ == used_names(entry)
    IN  File(entry.path,
             [i \in 1..Len(packages_) |-> from_name(packages_[i], snapshot, env)])

\* Project(files)
Project(fls) == [files |-> fls]

\* the first exception the list comprehension of scan_dir meets, "" when none
RECURSIVE FirstError(_, _, _)
FirstError(entries, snapshot, env) ==
    IF entries = <<>> THEN ""
    ELSE IF ScanFileError(Head(entries), snapshot, env) # ""
         THEN ScanFileError(Head(entries), snapshot, env)
         ELSE FirstError(Tail(entries), snapshot, env)

\* scan_dir leaving out the files scan_file raises on
ScanDirOutcome_skipsFailures(tree, snapshot, env) ==
    LET Scans(entry) == ScanFileError(entry, snapshot, env) = ""
        found == SelectSeq(rglob_py(tree), Scans)
    IN  Returned("scan_dir", None,
                 Project([i \in 1..Len(found) |-> scan_file(found[i], snapshot, env)]))

\* scan_dir: what it returns or raises
ScanDirOutcome(tree, snapshot, env) ==
    LET found == rglob_py(tree)
    IN  IF FirstError(found, snapshot, env) # ""
        THEN Raised("scan_dir", FirstError(found, snapshot, env))
        ELSE Returned("scan_dir", None,
                      Project([i \in 1..Len(found) |-> scan_file(found[i], snapshot, env)]))

\* the module is imported in an environment that stays as it is during the scan
InitScan ==
    /\ fs \in Trees
    /\ installed \in Environments
    /\ packages_distributions \in PackagesDistributions(installed)
    /\ ret = NoRet
    /\ files = <<>>
    /\ source = None

\* scan_file(fs[i].path)
ScanFile(i) ==
    /\ ret = NoRet
    /\ i \in 1..Len(fs)
    /\ ret' = IF ScanFileError(fs[i], packages_distributions, installed) # ""
              THEN [op |-> "scan_file", arg |-> i,
                    error |-> ScanFileError(fs[i], packages_distributions, installed)]
              ELSE Returned("scan_file", i,
                            scan_file(fs[i], packages_distributions, installed))
    /\ UNCHANGED <<files, source, fs, packages_distributions, installed>>

\* scan_dir(root)
ScanDir ==
    /\ ret = NoRet
    /\ ret' = ScanDirOutcome(fs, packages_distributions, installed)
    /\ UNCHANGED <<files, source, fs, packages_distributions, installed>>

NextScan ==
    \/ \E i \in 1..MaxEntries : ScanFile(i)
    \/ ScanDir
    \/ Return

SpecScan == InitScan /\ [][NextScan]_vars

\* the content is text without a syntax error
Parses(content) == content # Unreadable /\ content # InvalidSource

====
